---- MODULE Spec2Model ----
(***************************************************************************)
(* A model of mima-wasm: the MIMA machine (src/src/mima.rs), its           *)
(* instruction codec (Command::from_usize / Command::to_usize) and the     *)
(* assembler (src/src/compiler.rs).                                        *)
(*                                                                         *)
(* Every Rust `usize` is modelled as a pair of limbs [hi, lo] with         *)
(* value = hi * 2^24 + lo, because TLC's integers are narrower than the    *)
(* machine's.  The crate is built for wasm32, where usize has 32 bits, so  *)
(* lo < 2^24 and hi < 2^8.                                                 *)
(***************************************************************************)
EXTENDS Integers, Sequences, FiniteSets, TLC

VARIABLES
    \* ---- struct Mima (mima.rs:10-15)
    akku, iar, halt, memory,
    \* ---- the host's view of the machine
    panicked,         \* a Rust panic (index out of bounds, overflow) was raised
    running,          \* control is inside the loop of Mima::run
    ret,              \* the last call of the host and what it returned
    steps,            \* number of Mima::step executions since the last reset/load
    writes,           \* number of write_adress calls since the last reset/load
    overflow_checks,  \* the build's overflow-checks setting (debug: on, release: off)
    \* ---- codec round trips
    codecIn, codecMid, codecOut, codecPc,
    \* ---- compiler pipeline
    source, parsed_program, output, compPc

mvars == <<akku, iar, halt, memory, panicked, running, ret, steps, writes, overflow_checks>>
kvars == <<codecIn, codecMid, codecOut, codecPc>>
cvars == <<source, parsed_program, output, compPc>>
vars == <<mvars, kvars, cvars>>

\* ------------------------------------------------------------------ constants
MEMORY_SIZE == 1048576
VALUE_SIZE == 16777216
MINUS_ONE == 8388608
\* width of usize on the wasm32 target
USIZE_BITS == 32

\* ------------------------------------------------------------------ bounds
MaxSteps == 5
MaxWrites == 2
MaxLines == 3

\* ------------------------------------------------------------------ usize
LimbBase == 2^24
HiSize == 2^(USIZE_BITS - 24)

\* the usize with value n (n within TLC's integers)
U(n) == [hi |-> n \div LimbBase, lo |-> n % LimbBase]

\* a < b, a >= b, a > b on usize
ULt(a, b) == a.hi < b.hi \/ (a.hi = b.hi /\ a.lo < b.lo)
UGe_strict(a, b) == ULt(b, a)
UGe(a, b) == ~ULt(a, b)
UGt(a, b) == ULt(b, a)

\* (v >> n) & 1
Bit(v, n) ==
    IF n < 24 THEN (v.lo \div 2^n) % 2
    ELSE IF n < USIZE_BITS THEN (v.hi \div 2^(n - 24)) % 2
    ELSE 0

\* Option<T>
None == <<>>
Some(x) == <<x>>
Unwrap(o) == o[1]

\* ------------------------------------------------------------------ Instruction
Instructions ==
    {"LDC", "LDV", "STV", "ADD", "AND", "OR", "XOR", "EQL", "JMP", "JMN",
     "LDIV", "STIV", "NOT", "RAR", "HALT"}

from_opcode(opcode) ==
    CASE opcode = 0 -> Some("LDC")
      [] opcode = 1 -> Some("LDV")
      [] opcode = 2 -> Some("STV")
      [] opcode = 3 -> Some("ADD")
      [] opcode = 4 -> Some("AND")
      [] opcode = 5 -> Some("OR")
      [] opcode = 6 -> Some("XOR")
      [] opcode = 7 -> Some("EQL")
      [] opcode = 8 -> Some("JMP")
      [] opcode = 9 -> Some("JMN")
      [] opcode = 10 -> Some("LDIV")
      [] opcode = 11 -> Some("STIV")
      [] opcode = 240 -> Some("HALT")
      [] opcode = 241 -> Some("NOT")
      [] opcode = 242 -> Some("RAR")
      [] OTHER -> None

from_string(string) ==
    IF string \in Instructions THEN Some(string) ELSE None

to_opcode_swapped(instruction) ==
    CASE instruction = "LDC" -> 0
      [] instruction = "LDV" -> 1
      [] instruction = "STV" -> 2
      [] instruction = "ADD" -> 3
      [] instruction = "AND" -> 4
      [] instruction = "OR" -> 5
      [] instruction = "XOR" -> 6
      [] instruction = "EQL" -> 7
      [] instruction = "JMP" -> 9
      [] instruction = "JMN" -> 8
      [] instruction = "LDIV" -> 10
      [] instruction = "STIV" -> 11
      [] instruction = "HALT" -> 242
      [] instruction = "NOT" -> 241
      [] instruction = "RAR" -> 240

to_opcode(instruction) ==
    CASE instruction = "LDC" -> 0
      [] instruction = "LDV" -> 1
      [] instruction = "STV" -> 2
      [] instruction = "ADD" -> 3
      [] instruction = "AND" -> 4
      [] instruction = "OR" -> 5
      [] instruction = "XOR" -> 6
      [] instruction = "EQL" -> 7
      [] instruction = "JMP" -> 8
      [] instruction = "JMN" -> 9
      [] instruction = "LDIV" -> 10
      [] instruction = "STIV" -> 11
      [] instruction = "HALT" -> 240
      [] instruction = "NOT" -> 241
      [] instruction = "RAR" -> 242

\* ------------------------------------------------------------------ Command
\* struct Command { instruction, value }
Command(instruction, value) == [instruction |-> instruction, value |-> value]

\* (a..b).map(|n| (v >> n) & 1): the bits a..b-1 of v, least significant first
BitsOf(v, a, b) == [i \in 1..(b - a) |-> Bit(v, a + i - 1)]

\* .enumerate().fold(0, |acc, (index, elem)| acc + elem * 2.pow(index))
RECURSIVE FoldBits(_, _)
FoldBits(bits, k) ==
    IF k = 0 THEN 0
    ELSE FoldBits(bits, k - 1) + bits[k] * 2^(k - 1)

\* .rev()
Rev(s) == [i \in 1..Len(s) |-> s[Len(s) + 1 - i]]

from_usize(v) ==
    IF UGt(v, U(VALUE_SIZE)) THEN None
    ELSE
        LET opcode4 == FoldBits(BitsOf(v, 20, 24), 4)
            value20 == FoldBits(BitsOf(v, 0, 20), 20)
            extended == opcode4 = 15
            opcode == IF extended THEN FoldBits(BitsOf(v, 16, 24), 8) ELSE opcode4
            value == IF extended THEN FoldBits(BitsOf(v, 0, 16), 16) ELSE value20
            instruction == from_opcode(opcode)
        IN  IF instruction = None THEN None
            ELSE Some(Command(Unwrap(instruction), U(value)))

to_usize(self) ==
    LET opcode == to_opcode(self.instruction)
        extended == opcode >= 240
        opcode_bytes == IF extended THEN Rev(BitsOf(U(opcode), 0, 8))
                        ELSE Rev(BitsOf(U(opcode), 0, 4))
        value_bytes == IF extended THEN Rev(BitsOf(self.value, 0, 16))
                       ELSE Rev(BitsOf(self.value, 0, 20))
        chained == Rev(opcode_bytes \o value_bytes)
    IN  U(FoldBits(chained, Len(chained)))

\* ------------------------------------------------------------------ usize arithmetic
\* a + b with the carry out of the top bit
UAddWide(a, b) ==
    LET lo == a.lo + b.lo
        hi == a.hi + b.hi + (lo \div LimbBase)
    IN  [sum |-> [hi |-> hi % HiSize, lo |-> lo % LimbBase], overflow |-> hi >= HiSize]

\* one limb of n bits of a bitwise operator
RECURSIVE BitwiseLimb(_, _, _, _)
BitwiseLimb(op, a, b, n) ==
    IF n = 0 THEN 0
    ELSE LET x == a % 2
             y == b % 2
             z == CASE op = "and" -> x * y
                    [] op = "or" -> IF x + y > 0 THEN 1 ELSE 0
                    [] op = "xor" -> (x + y) % 2
         IN  z + 2 * BitwiseLimb(op, a \div 2, b \div 2, n - 1)

\* a & b, a | b, a ^ b
UBitwise(op, a, b) ==
    [hi |-> BitwiseLimb(op, a.hi, b.hi, USIZE_BITS - 24), lo |-> BitwiseLimb(op, a.lo, b.lo, 24)]

\* !a
UNot(a) == [hi |-> (HiSize - 1) - a.hi, lo |-> (LimbBase - 1) - a.lo]

\* a.rotate_right(1)
URotateRight1(a) ==
    [hi |-> (a.hi \div 2) + (a.lo % 2) * (HiSize \div 2),
     lo |-> (a.lo \div 2) + (a.hi % 2) * (LimbBase \div 2)]

\* ------------------------------------------------------------------ Vec<usize>
\* memory: Vec<usize> of MEMORY_SIZE cells, kept as the function of its nonzero cells
EmptyMemory == [x \in {} |-> U(0)]

\* self.memory[a], a an in-range index
MemGet(mem, a) == IF a \in DOMAIN mem THEN mem[a] ELSE U(0)

\* self.memory[a] = v, a an in-range index
MemSet(mem, a, v) ==
    IF v = U(0) THEN [x \in DOMAIN mem \ {a} |-> mem[x]]
    ELSE [x \in DOMAIN mem \cup {a} |-> IF x = a THEN v ELSE mem[x]]

\* whether indexing the memory with adress stays inside the Vec
InBounds(adress) == ULt(adress, U(MEMORY_SIZE))

\* a Vec<usize> of any length: its length and its nonzero elements by index
Vec(len, cells) == [len |-> len, cells |-> cells]
VecOfSeq(s) ==
    Vec(Len(s), [i \in {j \in 0..(Len(s) - 1) : s[j + 1] # U(0)} |-> s[i + 1]])
VecGet(v, i) == IF i \in DOMAIN v.cells THEN v.cells[i] ELSE U(0)

\* struct CompilerOutput { mima_code, start_adress }
CompilerOutput(mima_code, start_adress) ==
    [mima_code |-> mima_code, start_adress |-> start_adress]

\* ------------------------------------------------------------------ Mima
Mima(a, i, h, m) == [akku |-> a, iar |-> i, halt |-> h, memory |-> m]

new == Mima(U(0), U(0), FALSE, EmptyMemory)

reset(self) == Mima(U(0), U(0), FALSE, EmptyMemory)

write_adress_unchecked_value(self, adress, value) ==
    IF UGe(adress, U(MEMORY_SIZE))
    THEN [self |-> self, result |-> FALSE]
    ELSE [self |-> [self EXCEPT !.memory = MemSet(@, adress.lo, value)], result |-> TRUE]

write_adress(self, adress, value) ==
    IF UGe(adress, U(MEMORY_SIZE)) \/ UGe(value, U(VALUE_SIZE))
    THEN [self |-> self, result |-> FALSE]
    ELSE [self |-> [self EXCEPT !.memory = MemSet(@, adress.lo, value)], result |-> TRUE]

read_adress(self, adress) ==
    IF UGe(adress, U(MEMORY_SIZE)) THEN None
    ELSE Some(MemGet(self.memory, adress.lo))

\* outcomes of a call that may panic
Returns(self) == [self |-> self, panic |-> FALSE]
Panics(self) == [self |-> self, panic |-> TRUE]

\* an unconditional self.iar = next_instruction
Advance_when_halted(self, next_instruction) ==
    Returns([self EXCEPT !.iar = next_instruction])

\* if !self.halt { self.iar = next_instruction }
Advance(self, next_instruction) ==
    Returns(IF self.halt THEN self ELSE [self EXCEPT !.iar = next_instruction])

\* the match of Mima::step on a decoded command whose value is < MEMORY_SIZE
execute(self, command, checks) ==
    LET next_instruction == UAddWide(self.iar, U(1)).sum
        cell == MemGet(self.memory, command.value.lo)
        i == command.instruction
    IN  CASE i = "LDC" -> Advance([self EXCEPT !.akku = command.value], next_instruction)
          [] i = "LDV" -> Advance([self EXCEPT !.akku = cell], next_instruction)
          [] i = "STV" ->
                Advance([self EXCEPT !.memory = MemSet(@, command.value.lo, self.akku)],
                        next_instruction)
          [] i = "ADD" ->
                LET r == UAddWide(self.akku, cell)
                IN  IF r.overflow /\ checks THEN Panics(self)
                    ELSE Advance([self EXCEPT !.akku = r.sum], next_instruction)
          [] i = "AND" ->
                Advance([self EXCEPT !.akku = UBitwise("and", self.akku, cell)], next_instruction)
          [] i = "OR" ->
                Advance([self EXCEPT !.akku = UBitwise("or", self.akku, cell)], next_instruction)
          [] i = "XOR" ->
                Advance([self EXCEPT !.akku = UBitwise("xor", self.akku, cell)], next_instruction)
          [] i = "EQL" ->
                Advance([self EXCEPT !.akku = IF self.akku = cell THEN U(MINUS_ONE) ELSE U(0)],
                        next_instruction)
          [] i = "JMP" -> Advance(self, command.value)
          [] i = "JMN" ->
                Advance(self, IF UGe(self.akku, U(MINUS_ONE)) THEN command.value
                              ELSE next_instruction)
          [] i = "LDIV" ->
                IF ~InBounds(cell) THEN Panics(self)
                ELSE Advance([self EXCEPT !.akku = MemGet(self.memory, cell.lo)],
                             next_instruction)
          [] i = "STIV" ->
                IF ~InBounds(cell) THEN Panics(self)
                ELSE Advance([self EXCEPT !.memory = MemSet(@, cell.lo, self.akku)],
                             next_instruction)
          [] i = "HALT" -> Advance([self EXCEPT !.halt = TRUE], next_instruction)
          [] i = "NOT" -> Advance([self EXCEPT !.akku = UNot(self.akku)], next_instruction)
          [] i = "RAR" ->
                Advance([self EXCEPT !.akku = URotateRight1(self.akku)], next_instruction)

step_skipping_bad_word(self, checks) ==
    IF self.halt THEN Returns(self)
    ELSE IF ~InBounds(self.iar) THEN Panics(self)
    ELSE LET command == from_usize(MemGet(self.memory, self.iar.lo))
         IN  IF command = None \/ UGe(Unwrap(command).value, U(MEMORY_SIZE))
             THEN Returns([self EXCEPT !.halt = TRUE,
                                       !.iar = UAddWide(self.iar, U(1)).sum])
             ELSE execute(self, Unwrap(command), checks)

\* a step without the test of the halt flag
step_ignoring_halt(self, checks) ==
    IF ~InBounds(self.iar) THEN Panics(self)
    ELSE LET command == from_usize(MemGet(self.memory, self.iar.lo))
         IN  IF command = None \/ UGe(Unwrap(command).value, U(MEMORY_SIZE))
             THEN Returns([self EXCEPT !.halt = TRUE])
             ELSE execute([self EXCEPT !.halt = FALSE], Unwrap(command), checks)

step(self, checks) ==
    IF self.halt THEN Returns(self)
    ELSE IF ~InBounds(self.iar) THEN Panics(self)
    ELSE LET command == from_usize(MemGet(self.memory, self.iar.lo))
         IN  IF command = None \/ UGe(Unwrap(command).value, U(MEMORY_SIZE))
             THEN Returns([self EXCEPT !.halt = TRUE])
             ELSE execute(self, Unwrap(command), checks)

\* a load that copies the image without clearing the machine first
load_without_reset(self, program) ==
    LET code == program.mima_code
        copied == [x \in {y \in DOMAIN self.memory : y >= code.len}
                          \cup {y \in DOMAIN code.cells : y < code.len} |->
                      IF x < code.len THEN code.cells[x] ELSE self.memory[x]]
    IN  IF code.len >= MEMORY_SIZE
        THEN [self |-> self, result |-> FALSE]
        ELSE [self |-> [self EXCEPT !.memory = copied, !.iar = program.start_adress],
              result |-> TRUE]

load(self, program) ==
    LET cleared == reset(self)
        code == program.mima_code
        copied == [x \in {y \in DOMAIN cleared.memory : y >= code.len}
                          \cup {y \in DOMAIN code.cells : y < code.len} |->
                      IF x < code.len THEN code.cells[x] ELSE cleared.memory[x]]
    IN  IF code.len >= MEMORY_SIZE
        THEN [self |-> cleared, result |-> FALSE]
        ELSE [self |-> [cleared EXCEPT !.memory = copied, !.iar = program.start_adress],
              result |-> TRUE]

\* ------------------------------------------------------------------ assembler
\* Result<T, CompilerError>
Ok(value) == [ok |-> TRUE, value |-> <<value>>, err |-> <<>>]
Err(e) == [ok |-> FALSE, value |-> <<>>, err |-> <<e>>]

\* enum CompilerError
InvalidLine(line) == [kind |-> "InvalidLine", line |-> line, name |-> ""]
InvalidReference(line) == [kind |-> "InvalidReference", line |-> line, name |-> ""]
UnknownVariable(name) == [kind |-> "UnknownVariable", line |-> 0, name |-> name]
UnknownLabel(name) == [kind |-> "UnknownLabel", line |-> 0, name |-> name]
UnknownInstruction(name) == [kind |-> "UnknownInstruction", line |-> 0, name |-> name]

\* enum Param
Fixed(number) == [kind |-> "Fixed", value |-> number, name |-> ""]
Reference(name) == [kind |-> "Reference", value |-> U(0), name |-> name]
NoParam == [kind |-> "None", value |-> U(0), name |-> ""]

\* struct Variable, struct Cmd, struct ParsedProgram
Variable(name, value) == [name |-> name, value |-> value]
Cmd(instruction, param, label) == [instruction |-> instruction, param |-> param, label |-> label]
ParsedProgram(variables, commands) == [variables |-> variables, commands |-> commands]

\* A source line, by the parts the two regular expressions capture:
\*   kind "comment"  a line starting with ";"
\*   kind "blank"    the empty line
\*   kind "var"      "<name>: DS" or "<name>: DS <arg>"       (VARIABLE_REGEX matches)
\*   kind "instr"    "[<label>:] <name> [<arg>]"              (only INSTRUCTION_REGEX matches)
\*   kind "other"    a line without any letter, such as "123" (neither matches); name is its text
\* label is an Option<name>; arg is None, a number token or a symbol token.
Line(kind, label, name, arg) == [kind |-> kind, label |-> label, name |-> name, arg |-> arg]
NumArg(n) == Some([num |-> TRUE, value |-> U(n), name |-> ""])
SymArg(name) == Some([num |-> FALSE, value |-> U(0), name |-> name])

\* the index (from 0) of the last element equal to x
Position_of_last(seq, x) ==
    (CHOOSE i \in 1..Len(seq) : seq[i] = x /\ \A j \in (i + 1)..Len(seq) : seq[j] # x) - 1

\* iter().position(|r| r == x): index (from 0) of the first element equal to x
Position(seq, x) ==
    (CHOOSE i \in 1..Len(seq) : seq[i] = x /\ \A j \in 1..(i - 1) : seq[j] # x) - 1

RECURSIVE ParseLines(_, _, _, _)
ParseLines(lines, k, variables, commands) ==
    IF k > Len(lines) THEN Ok(ParsedProgram(variables, commands))
    ELSE
        LET line == lines[k]
        IN  IF line.kind = "var" THEN
                LET value == IF line.arg # None /\ Unwrap(line.arg).num
                             THEN Some(Unwrap(line.arg).value) ELSE None
                IN  ParseLines(lines, k + 1, Append(variables, Variable(line.name, value)),
                               commands)
            ELSE IF line.kind = "instr" THEN
                LET param == IF line.arg = None THEN NoParam
                             ELSE IF Unwrap(line.arg).num THEN Fixed(Unwrap(line.arg).value)
                             ELSE Reference(Unwrap(line.arg).name)
                    instruction == from_string(line.name)
                IN  IF instruction = None THEN Err(UnknownInstruction(line.name))
                    ELSE ParseLines(lines, k + 1, variables,
                                    Append(commands,
                                           Cmd(Unwrap(instruction), param, line.label)))
            ELSE Err(InvalidLine(Position(lines, line)))

parse_assembly(input) ==
    LET lines == SelectSeq(SelectSeq(input, LAMBDA line : line.kind # "comment"),
                           LAMBDA line : line.kind # "blank")
    IN  ParseLines(lines, 1, <<>>, <<>>)

RECURSIVE ScanVariables(_, _, _)
ScanVariables(variables, reference, k) ==
    IF k > Len(variables) THEN Err(UnknownVariable(reference))
    ELSE IF variables[k].name = reference THEN Ok(k - 1)
    ELSE ScanVariables(variables, reference, k + 1)

resolve_variable(variables, reference) == ScanVariables(variables, reference, 1)

RECURSIVE ScanLabels(_, _, _)
ScanLabels(commands, label, k) ==
    IF k > Len(commands) THEN Err(UnknownLabel(label))
    ELSE IF commands[k].label # None /\ Unwrap(commands[k].label) = label THEN Ok(k - 1)
    ELSE ScanLabels(commands, label, k + 1)

\* a scan that counts positions from 1
resolve_label_from_one(commands, label) ==
    LET r == ScanLabels(commands, label, 1)
    IN  IF r.ok THEN Ok(Unwrap(r.value) + 1) ELSE r

resolve_label(commands, label) == ScanLabels(commands, label, 1)

IsJump(instruction) == instruction = "JMP" \/ instruction = "JMN"

\* a resolution that tries the labels first for jumps
resolve_param_label_first(parsed, cmd) ==
    CASE cmd.param.kind = "Fixed" -> Ok(Command(cmd.instruction, cmd.param.value))
      [] cmd.param.kind = "None" -> Ok(Command(cmd.instruction, U(0)))
      [] cmd.param.kind = "Reference" ->
            LET resolved_var == resolve_variable(parsed.variables, cmd.param.name)
                resolved_label == resolve_label(parsed.commands, cmd.param.name)
            IN  IF resolved_label.ok /\ IsJump(cmd.instruction) THEN
                    Ok(Command(cmd.instruction,
                               U(Unwrap(resolved_label.value) + Len(parsed.variables))))
                ELSE IF resolved_var.ok THEN
                    Ok(Command(cmd.instruction, U(Unwrap(resolved_var.value))))
                ELSE IF IsJump(cmd.instruction) THEN resolved_label
                ELSE Err(InvalidReference(Position(parsed.commands, cmd)))

\* the match on cmd.param of generate_machinecode: Ok(Command) or the error returned
resolve_param(parsed, cmd) ==
    CASE cmd.param.kind = "Fixed" -> Ok(Command(cmd.instruction, cmd.param.value))
      [] cmd.param.kind = "None" -> Ok(Command(cmd.instruction, U(0)))
      [] cmd.param.kind = "Reference" ->
            LET resolved_var == resolve_variable(parsed.variables, cmd.param.name)
            IN  IF ~resolved_var.ok /\ IsJump(cmd.instruction) THEN
                    LET resolved_label == resolve_label(parsed.commands, cmd.param.name)
                    IN  IF ~resolved_label.ok THEN resolved_label
                        ELSE Ok(Command(cmd.instruction,
                                        U(Unwrap(resolved_label.value)
                                          + Len(parsed.variables))))
                ELSE IF resolved_var.ok THEN
                    Ok(Command(cmd.instruction, U(Unwrap(resolved_var.value))))
                ELSE Err(InvalidReference(Position(parsed.commands, cmd)))

RECURSIVE EmitCommands(_, _, _)
EmitCommands(parsed, k, compiled) ==
    IF k > Len(parsed.commands)
    THEN Ok(CompilerOutput(VecOfSeq(compiled), U(Len(parsed.variables))))
    ELSE LET command == resolve_param(parsed, parsed.commands[k])
         IN  IF ~command.ok THEN command
             ELSE EmitCommands(parsed, k + 1,
                               Append(compiled, to_usize(Unwrap(command.value))))

\* a generator that emits the commands before the variables
generate_machinecode_code_first(parsed) ==
    LET compiled == [i \in 1..Len(parsed.variables) |->
                        IF parsed.variables[i].value = None THEN U(0)
                        ELSE Unwrap(parsed.variables[i].value)]
        emitted == EmitCommands(parsed, 1, <<>>)
    IN  IF ~emitted.ok THEN emitted
        ELSE Ok(CompilerOutput(
                 Vec(Unwrap(emitted.value).mima_code.len + Len(compiled),
                     [x \in DOMAIN Unwrap(emitted.value).mima_code.cells
                             \cup {Unwrap(emitted.value).mima_code.len + i - 1 :
                                      i \in {j \in 1..Len(compiled) : compiled[j] # U(0)}} |->
                         IF x < Unwrap(emitted.value).mima_code.len
                         THEN Unwrap(emitted.value).mima_code.cells[x]
                         ELSE compiled[x - Unwrap(emitted.value).mima_code.len + 1]]),
                 U(Len(parsed.variables))))

generate_machinecode(parsed) ==
    LET compiled == [i \in 1..Len(parsed.variables) |->
                        IF parsed.variables[i].value = None THEN U(0)
                        ELSE Unwrap(parsed.variables[i].value)]
    IN  EmitCommands(parsed, 1, compiled)

compile(input) ==
    LET parsed_ == parse_assembly(input)
    IN  IF ~parsed_.ok THEN parsed_ ELSE generate_machinecode(Unwrap(parsed_.value))

\* ------------------------------------------------------------------ idle parts
NoCall == [op |-> "none", adress |-> U(0), value |-> U(0), program |-> None, result |-> None]

MachineIdle ==
    /\ akku = U(0) /\ iar = U(0) /\ halt = FALSE /\ memory = EmptyMemory
    /\ panicked = FALSE /\ running = FALSE /\ ret = NoCall
    /\ steps = 0 /\ writes = 0

CodecIdle ==
    codecIn = None /\ codecMid = None /\ codecOut = None /\ codecPc = "idle"

CompilerIdle ==
    source = <<>> /\ parsed_program = None /\ output = None /\ compPc = "idle"

\* ------------------------------------------------------------------ codec round trips
\* operands at and around the ends of the 16-bit and the 20-bit operand field
OperandInputs ==
    {U(0), U(1), U(2), U(43690), U(2^16 - 1), U(2^16), U(2^16 + 1), U(699050),
     U(2^20 - 1), U(2^20), U(2^24 - 1), [hi |-> HiSize - 1, lo |-> LimbBase - 1]}

CommandInputs == {Command(i, v) : i \in Instructions, v \in OperandInputs}

\* words of every 4-bit opcode and of every opcode of the 1111 family, and the
\* words around VALUE_SIZE
WordInputs ==
    {U(k * 2^20 + x) : k \in 0..15, x \in {0, 1, 43690, 2^20 - 1}}
    \cup {U(k * 2^16 + x) : k \in 240..255, x \in {0, 1, 2^16 - 1}}
    \cup {U(VALUE_SIZE - 1), U(VALUE_SIZE), U(VALUE_SIZE + 1), U(VALUE_SIZE + 2^20),
          [hi |-> HiSize - 1, lo |-> LimbBase - 1]}

InitCodec ==
    /\ MachineIdle /\ overflow_checks = FALSE /\ CompilerIdle
    /\ \/ codecIn \in CommandInputs /\ codecPc = "cmd"
       \/ codecIn \in WordInputs /\ codecPc = "word"
    /\ codecMid = None /\ codecOut = None

\* cmd.to_usize()
Encode ==
    /\ codecPc = "cmd"
    /\ codecMid' = to_usize(codecIn)
    /\ codecPc' = "encoded"
    /\ UNCHANGED <<codecIn, codecOut, mvars, cvars>>

\* Command::from_usize(cmd.to_usize())
DecodeEncoded ==
    /\ codecPc = "encoded"
    /\ codecOut' = from_usize(codecMid)
    /\ codecPc' = "cmd_done"
    /\ UNCHANGED <<codecIn, codecMid, mvars, cvars>>

\* Command::from_usize(word)
Decode ==
    /\ codecPc = "word"
    /\ codecMid' = from_usize(codecIn)
    /\ codecPc' = "decoded"
    /\ UNCHANGED <<codecIn, codecOut, mvars, cvars>>

\* Command::from_usize(word).unwrap().to_usize()
EncodeDecoded ==
    /\ codecPc = "decoded"
    /\ codecMid # None
    /\ codecOut' = to_usize(Unwrap(codecMid))
    /\ codecPc' = "word_done"
    /\ UNCHANGED <<codecIn, codecMid, mvars, cvars>>

NextCodec == Encode \/ DecodeEncoded \/ Decode \/ EncodeDecoded

SpecCodec == InitCodec /\ [][NextCodec]_vars

\* the operand of c fits the operand field of its instruction
FitsOperandField(c) ==
    IF c.instruction \in {"HALT", "NOT", "RAR"} THEN ULt(c.value, U(2^16))
    ELSE ULt(c.value, U(2^20))

\* C1: decoding the encoding of a command whose operand fits its operand field
\* (below 2^20, below 2^16 for HALT/NOT/RAR) gives back exactly that command.
C1_DecodeEncode ==
    (codecPc = "cmd_done" /\ FitsOperandField(codecIn)) => codecOut = Some(codecIn)

C1_Witness ==
    /\ codecPc = "cmd_done"
    /\ codecIn = Command("HALT", U(2^16 - 1))
    /\ codecOut = Some(codecIn)

\* C2: encoding the decoding of any word that decodes gives back that word,
\* the words at the upper end of the word range (VALUE_SIZE itself) included.
C2_EncodeDecode ==
    codecPc = "word_done" => codecOut = codecIn

\* C2 on the code's side: the round trip holds for every word below VALUE_SIZE.
C2_EncodeDecodeBelow ==
    (codecPc = "word_done" /\ ULt(codecIn, U(VALUE_SIZE))) => codecOut = codecIn

\* ------------------------------------------------------------------ the machine and its host
Self == Mima(akku, iar, halt, memory)

SetSelf(m) ==
    akku' = m.akku /\ iar' = m.iar /\ halt' = m.halt /\ memory' = m.memory

Call(op, adress, value, program, result) ==
    [op |-> op, adress |-> adress, value |-> value, program |-> program, result |-> result]

Enc(instruction, n) == to_usize(Command(instruction, U(n)))

\* tests::mima_add_program
AddProgram ==
    CompilerOutput(VecOfSeq(<<U(22), U(20), U(0), Enc("LDV", 0), Enc("ADD", 1),
                              Enc("STV", 2), Enc("HALT", 0)>>), U(3))
\* words at and above VALUE_SIZE
BigWordProgram ==
    CompilerOutput(VecOfSeq(<<U(VALUE_SIZE), [hi |-> 1, lo |-> 5], Enc("HALT", 0)>>), U(0))
\* an empty image that starts at the last cell / behind the last cell
LastCellProgram == CompilerOutput(Vec(0, EmptyMemory), U(MEMORY_SIZE - 1))
StartOutsideProgram == CompilerOutput(Vec(0, EmptyMemory), U(MEMORY_SIZE))
\* indirect accesses through a pointer inside and a pointer outside the memory
IndirectProgram ==
    CompilerOutput(VecOfSeq(<<Enc("LDIV", 2), Enc("STIV", 3), U(1), U(MEMORY_SIZE)>>), U(0))
IndirectLoadProgram ==
    CompilerOutput(VecOfSeq(<<Enc("LDIV", 1), U(VALUE_SIZE - 1)>>), U(0))
\* a sum that leaves the 24 bits of a value
OverflowProgram ==
    CompilerOutput(VecOfSeq(<<U(VALUE_SIZE - 1), Enc("LDV", 0), Enc("ADD", 0),
                              Enc("STV", 0), Enc("HALT", 0)>>), U(1))
NotProgram ==
    CompilerOutput(VecOfSeq(<<Enc("NOT", 0), Enc("STV", 4), Enc("ADD", 4),
                              Enc("RAR", 0)>>), U(0))
RotateProgram ==
    CompilerOutput(VecOfSeq(<<Enc("LDC", 3), Enc("RAR", 0), Enc("STV", 0),
                              Enc("HALT", 0)>>), U(0))
\* opcodes no instruction has
UnknownOpcodeProgram ==
    CompilerOutput(VecOfSeq(<<Enc("LDC", 5), U(12 * 2^20 + 7)>>), U(0))
UnknownLongOpcodeProgram ==
    CompilerOutput(VecOfSeq(<<U(243 * 2^16), Enc("HALT", 0)>>), U(0))
\* one-word images of the other ends of the two ranges of unknown opcodes
BadWordPrograms ==
    {CompilerOutput(VecOfSeq(<<w>>), U(0)) :
        w \in {U(13 * 2^20), U(14 * 2^20 + 1), U(244 * 2^16), U(255 * 2^16 + 65535)}}
\* the bitwise instructions
LogicProgram ==
    CompilerOutput(VecOfSeq(<<Enc("LDC", 12), Enc("OR", 5), Enc("XOR", 6), Enc("AND", 7),
                              Enc("HALT", 0), U(3), U(5), U(6)>>), U(0))
\* equality test and jumps
JumpProgram ==
    CompilerOutput(VecOfSeq(<<Enc("EQL", 3), Enc("JMN", 0), Enc("JMP", 1), U(0)>>), U(0))
\* images of MEMORY_SIZE - 1, MEMORY_SIZE and MEMORY_SIZE + 1 words
AlmostFullProgram ==
    CompilerOutput(Vec(MEMORY_SIZE - 1, [x \in {0, MEMORY_SIZE - 2} |-> Enc("HALT", 0)]), U(0))
FullProgram ==
    CompilerOutput(Vec(MEMORY_SIZE, [x \in {0, MEMORY_SIZE - 1} |-> Enc("HALT", 0)]), U(0))
OverfullProgram ==
    CompilerOutput(Vec(MEMORY_SIZE + 1, [x \in {0, MEMORY_SIZE} |-> Enc("HALT", 0)]), U(0))

Programs ==
    {AddProgram, BigWordProgram, LastCellProgram, StartOutsideProgram, IndirectProgram,
     IndirectLoadProgram, OverflowProgram, NotProgram, RotateProgram, UnknownOpcodeProgram,
     UnknownLongOpcodeProgram, LogicProgram, JumpProgram, AlmostFullProgram, FullProgram, OverfullProgram}
    \cup BadWordPrograms

\* addresses and values the host reads and writes
Adresses == {U(0), U(3), U(MEMORY_SIZE - 1), U(MEMORY_SIZE)}
Values == {U(0), U(MEMORY_SIZE), U(VALUE_SIZE - 1), U(VALUE_SIZE)}

Init ==
    /\ MachineIdle /\ overflow_checks \in BOOLEAN
    /\ CodecIdle /\ CompilerIdle

\* the host may call into the machine: no call is running and none has panicked
HostTurn == ~panicked /\ ~running

Reset ==
    /\ HostTurn
    /\ SetSelf(reset(Self))
    /\ ret' = Call("reset", U(0), U(0), None, None)
    /\ steps' = 0 /\ writes' = 0
    /\ UNCHANGED <<panicked, running, overflow_checks, kvars, cvars>>

Write(adress, value) ==
    /\ HostTurn
    /\ writes < MaxWrites
    /\ LET r == write_adress(Self, adress, value)
       IN  /\ SetSelf(r.self)
           /\ ret' = Call("write_adress", adress, value, None, Some(r.result))
    /\ writes' = writes + 1
    /\ UNCHANGED <<panicked, running, steps, overflow_checks, kvars, cvars>>

Read(adress) ==
    /\ HostTurn
    /\ ret' = Call("read_adress", adress, U(0), None, read_adress(Self, adress))
    /\ UNCHANGED <<akku, iar, halt, memory, panicked, running, steps, writes,
                   overflow_checks, kvars, cvars>>

\* one execution of Mima::step, called by the host or by the loop of Mima::run
ExecStep ==
    \E r \in {step(Self, overflow_checks)} :
        /\ SetSelf(r.self)
        /\ panicked' = r.panic

\* the same, counted: the executions of a machine that is not halted are bounded
DoStep ==
    /\ halt \/ steps < MaxSteps
    /\ ExecStep
    /\ steps' = IF halt THEN steps ELSE steps + 1

Step ==
    /\ HostTurn
    /\ DoStep
    /\ ret' = Call("step", U(0), U(0), None, None)
    /\ UNCHANGED <<running, writes, overflow_checks, kvars, cvars>>

\* Mima::run is called: the loop is left at once if halt is set
RunCall ==
    /\ HostTurn
    /\ running' = ~halt
    /\ ret' = Call("run", U(0), U(0), None, None)
    /\ UNCHANGED <<akku, iar, halt, memory, panicked, steps, writes, overflow_checks,
                   kvars, cvars>>

\* one iteration of the loop of Mima::run; run returns when halt is set
RunIteration ==
    /\ running /\ ~panicked /\ ~halt
    /\ DoStep
    /\ running' = ~halt'
    /\ UNCHANGED <<ret, writes, overflow_checks, kvars, cvars>>

\* the machine's part of a call of Mima::load
DoLoad(program) ==
    /\ LET r == load(Self, program)
       IN  /\ SetSelf(r.self)
           /\ ret' = Call("load", U(0), U(0), Some(program), Some(r.result))
    /\ steps' = 0 /\ writes' = 0
    /\ UNCHANGED <<panicked, running, overflow_checks>>

Load(program) ==
    /\ HostTurn
    /\ DoLoad(program)
    /\ UNCHANGED <<kvars, cvars>>

Next ==
    \/ Reset
    \/ \E adress \in Adresses, value \in Values : Write(adress, value)
    \/ \E adress \in Adresses : Read(adress)
    \/ Step
    \/ RunCall
    \/ RunIteration
    \/ \E program \in Programs : Load(program)

Spec == Init /\ [][Next]_vars

\* ------------------------------------------------------------------ claims on the machine
\* Command::from_usize(self.memory[self.iar]), for an instruction address inside the memory
Fetched == from_usize(MemGet(memory, iar.lo))

\* this transition executes Mima::step on a machine that is not halted
StepExecuted == steps' = steps + 1

MachineUnchanged == akku' = akku /\ iar' = iar /\ halt' = halt /\ memory' = memory

\* C6: a step of a machine that is not halted, onto a word that does not decode,
\* sets halt without raising and leaves accumulator, instruction address and memory.
C6_BadWordHalts ==
    [][(StepExecuted /\ InBounds(iar) /\ Fetched = None)
        => (halt' /\ ~panicked' /\ akku' = akku /\ iar' = iar /\ memory' = memory)]_vars

\* halted by the word 12 * 2^20 + 7 (opcode 12) behind an executed LDC 5
C6_Witness ==
    /\ halt /\ ~panicked /\ steps = 2
    /\ akku = U(5) /\ iar = U(1)
    /\ MemGet(memory, 1) = U(12 * 2^20 + 7)
    /\ Fetched = None

\* the address the fetched command accesses lies outside the memory
AccessOutOfRange ==
    LET c == Unwrap(Fetched)
    IN  \/ ~InBounds(c.value)
        \/ /\ c.instruction \in {"LDIV", "STIV"}
           /\ ~InBounds(MemGet(memory, c.value.lo))

\* C7: a step whose instruction would access an address >= MEMORY_SIZE (the operand,
\* or for LDIV/STIV the address read from memory[operand]) sets halt and returns.
C7_BadAdressHalts ==
    [][(StepExecuted /\ InBounds(iar) /\ Fetched # None /\ AccessOutOfRange)
        => (halt' /\ ~panicked')]_vars

\* C8: the instruction address is always inside the memory.
C8_IarInBounds == InBounds(iar)

\* C9: every memory cell holds a value below VALUE_SIZE.
C9_ValuesInRange == \A a \in DOMAIN memory : ULt(memory[a], U(VALUE_SIZE))

\* C10: write_adress succeeds exactly for adress < MEMORY_SIZE and value < VALUE_SIZE
\* and then changes memory[adress] alone, else it returns false and changes nothing;
\* read_adress returns memory[adress] for adress < MEMORY_SIZE, else None, and changes
\* nothing; halted or not.
C10_WriteRead ==
    [][/\ ret'.op = "write_adress" =>
            LET a == ret'.adress
                v == ret'.value
                ok == ULt(a, U(MEMORY_SIZE)) /\ ULt(v, U(VALUE_SIZE))
            IN  /\ ret'.result = Some(ok)
                /\ akku' = akku /\ iar' = iar /\ halt' = halt
                /\ ~ok => memory' = memory
                /\ ok => /\ MemGet(memory', a.lo) = v
                         /\ \A x \in (DOMAIN memory \cup DOMAIN memory') \ {a.lo} :
                                MemGet(memory', x) = MemGet(memory, x)
       /\ ret'.op = "read_adress" =>
            LET a == ret'.adress
            IN  /\ ret'.result = IF ULt(a, U(MEMORY_SIZE)) THEN Some(MemGet(memory, a.lo))
                                 ELSE None
                /\ MachineUnchanged]_vars

\* a halted machine took a write into its last cell
C10_Witness ==
    /\ halt
    /\ ret.op = "write_adress" /\ ret.adress = U(MEMORY_SIZE - 1)
    /\ ret.value = U(VALUE_SIZE - 1) /\ ret.result = Some(TRUE)
    /\ MemGet(memory, MEMORY_SIZE - 1) = U(VALUE_SIZE - 1)

\* ------------------------------------------------------------------ compile, load, run
\* the lines a source text is made of
LinePool ==
    {Line("comment", None, "; c", None),          \* ; c
     Line("blank", None, "", None),               \*
     Line("var", None, "a", NumArg(22)),          \* a: DS 22
     Line("var", None, "b", None),                \* b: DS
     Line("instr", None, "LDV", SymArg("a")),     \* LDV a
     Line("instr", Some("a"), "JMP", SymArg("a")),\* a: JMP a
     Line("instr", Some("L"), "NOT", None),       \* L: NOT
     Line("instr", None, "JMN", SymArg("L")),     \* JMN L
     Line("instr", None, "STV", NumArg(5)),       \* STV 5
     Line("instr", None, "FOO", None),            \* FOO
     Line("other", None, "123", None)}            \* 123

Sources == UNION {[1..n -> LinePool] : n \in 0..MaxLines}

InitCompiler ==
    /\ MachineIdle /\ overflow_checks \in BOOLEAN
    /\ CodecIdle
    /\ source \in Sources
    /\ parsed_program = None /\ output = None /\ compPc = "source"

\* compiler::compile(source)
Compile ==
    /\ compPc = "source"
    /\ parsed_program' = parse_assembly(source)
    /\ output' = compile(source)
    /\ compPc' = "compiled"
    /\ UNCHANGED <<source, mvars, kvars>>

\* mima.load(output) of a successful compilation
LoadCompiled ==
    /\ compPc = "compiled"
    /\ output.ok
    /\ HostTurn
    /\ DoLoad(Unwrap(output.value))
    /\ compPc' = "loaded"
    /\ UNCHANGED <<source, parsed_program, output, kvars>>

\* mima.step() on the loaded program
StepCompiled ==
    /\ compPc = "loaded"
    /\ Step

NextCompiler == Compile \/ LoadCompiled \/ StepCompiled

SpecCompiler == InitCompiler /\ [][NextCompiler]_vars

\* the declarations and the instruction lines of the source text, in source order
VarLines == SelectSeq(source, LAMBDA line : line.kind = "var")
InstrLines == SelectSeq(source, LAMBDA line : line.kind = "instr")
DeclaredAt(name) == {i \in 1..Len(VarLines) : VarLines[i].name = name}
LabelledAt(name) == {j \in 1..Len(InstrLines) : InstrLines[j].label = Some(name)}
Least(S) == CHOOSE x \in S : \A y \in S : x <= y
IsSymbolic(line) == line.arg # None /\ ~Unwrap(line.arg).num
SymbolOf(line) == Unwrap(line.arg).name
\* the instruction line is a jump whose symbol names a variable / names a label
JumpBySymbol(line) == IsJump(line.name) /\ IsSymbolic(line)

\* the operand the layout of the data model gives an instruction line
ExpectedOperand(line) ==
    IF line.arg = None THEN U(0)
    ELSE IF Unwrap(line.arg).num THEN Unwrap(line.arg).value
    ELSE IF DeclaredAt(SymbolOf(line)) # {} THEN U(Least(DeclaredAt(SymbolOf(line))) - 1)
    ELSE U(Len(VarLines) + Least(LabelledAt(SymbolOf(line))) - 1)

Compiled == compPc \in {"compiled", "loaded"} /\ output.ok
Image == Unwrap(output.value)
ImageWord(i) == VecGet(Image.mima_code, i)

\* C3: a successful compilation of N declarations and M instruction lines, in any
\* interleaving, gives N + M words and start address N; word i < N is the i-th
\* declaration's initial value or 0, word N + j the encoding of the j-th instruction
\* with its resolved operand.
C3_ImageLayout ==
    Compiled =>
        /\ Image.mima_code.len = Len(VarLines) + Len(InstrLines)
        /\ Image.start_adress = U(Len(VarLines))
        /\ DOMAIN Image.mima_code.cells \subseteq 0..(Image.mima_code.len - 1)
        /\ \A i \in 1..Len(VarLines) :
              ImageWord(i - 1) = IF VarLines[i].arg = None THEN U(0)
                                 ELSE Unwrap(VarLines[i].arg).value
        /\ \A j \in 1..Len(InstrLines) :
              ImageWord(Len(VarLines) + j - 1)
                  = to_usize(Command(InstrLines[j].name, ExpectedOperand(InstrLines[j])))

\* "LDV a", "a: DS 22", "STV 5" compiles to [22, LDV 0, STV 5] with start address 1
C3_Witness ==
    /\ Compiled
    /\ source = <<Line("instr", None, "LDV", SymArg("a")), Line("var", None, "a", NumArg(22)),
                  Line("instr", None, "STV", NumArg(5))>>
    /\ Image = CompilerOutput(VecOfSeq(<<U(22), Enc("LDV", 0), Enc("STV", 5)>>), U(1))

\* C4: a JMP/JMN whose symbol names both a declared variable and a label compiles
\* to the variable's address, not to the label's code address.
C4_VariableBeforeLabel ==
    Compiled =>
        \A j \in 1..Len(InstrLines) :
            LET line == InstrLines[j]
            IN  (/\ JumpBySymbol(line)
                 /\ DeclaredAt(SymbolOf(line)) # {}
                 /\ LabelledAt(SymbolOf(line)) # {})
                => /\ ImageWord(Len(VarLines) + j - 1)
                        = to_usize(Command(line.name,
                                           U(Least(DeclaredAt(SymbolOf(line))) - 1)))
                   /\ ImageWord(Len(VarLines) + j - 1)
                        # to_usize(Command(line.name,
                                           U(Len(VarLines)
                                             + Least(LabelledAt(SymbolOf(line))) - 1)))

\* "b: DS", "a: DS 22", "a: JMP a" compiles the jump to JMP 1, the address of a
C4_Witness ==
    /\ Compiled
    /\ source = <<Line("var", None, "b", None), Line("var", None, "a", NumArg(22)),
                  Line("instr", Some("a"), "JMP", SymArg("a"))>>
    /\ ImageWord(2) = Enc("JMP", 1)

\* the instruction line is a jump to a label that no variable shadows
JumpToLabel(line) ==
    /\ JumpBySymbol(line)
    /\ DeclaredAt(SymbolOf(line)) = {}
    /\ LabelledAt(SymbolOf(line)) # {}
\* N + p for the label of the jump
LabelAdress(line) == Len(VarLines) + Least(LabelledAt(SymbolOf(line))) - 1
\* the jump is taken in the current state
JumpTaken(line) == line.name = "JMP" \/ UGe(akku, U(MINUS_ONE))

\* C5: a JMP/JMN whose symbol names no variable but a label compiles to operand
\* N + p, p the position of the first instruction carrying the label; after load
\* memory[N + p] holds the word of that instruction; executing the jump sets the
\* instruction address to N + p.
C5_LabelJump ==
    /\ [](Compiled =>
            \A j \in 1..Len(InstrLines) :
                LET line == InstrLines[j]
                IN  JumpToLabel(line) =>
                      /\ ImageWord(Len(VarLines) + j - 1)
                            = to_usize(Command(line.name, U(LabelAdress(line))))
                      /\ (compPc = "loaded" /\ steps = 0) =>
                            MemGet(memory, LabelAdress(line))
                                = to_usize(Command(
                                      InstrLines[Least(LabelledAt(SymbolOf(line)))].name,
                                      ExpectedOperand(
                                          InstrLines[Least(LabelledAt(SymbolOf(line)))]))))
    /\ [][(compPc = "loaded" /\ StepExecuted) =>
            \A j \in 1..Len(InstrLines) :
                LET line == InstrLines[j]
                IN  (/\ JumpToLabel(line)
                     /\ iar = U(Len(VarLines) + j - 1)
                     /\ MemGet(memory, iar.lo) = ImageWord(Len(VarLines) + j - 1)
                     /\ JumpTaken(line))
                    => /\ iar' = U(LabelAdress(line))
                       /\ ~panicked' /\ ~halt']_vars

\* "L: NOT", "JMN L" ran NOT and then jumped back from address 1 to L at address 0
C5_Witness ==
    /\ compPc = "loaded"
    /\ source = <<Line("instr", Some("L"), "NOT", None),
                  Line("instr", None, "JMN", SymArg("L"))>>
    /\ steps = 2 /\ iar = U(0) /\ UGe(akku, U(MINUS_ONE))
    /\ MemGet(memory, 1) = Enc("JMN", 0)

\* ------------------------------------------------------------------ claims on load
\* the last call of the host was load, and nothing has run since
JustLoaded == ret.op = "load"
LoadedProgram == Unwrap(ret.program)

\* C11: load rejects exactly the images of more than MEMORY_SIZE words; an image
\* that fits, one of exactly MEMORY_SIZE words included, is accepted and copied to
\* the addresses 0..len-1.
C11_LoadRejectsOverlong ==
    JustLoaded =>
        LET code == LoadedProgram.mima_code
        IN  /\ ret.result = Some(code.len <= MEMORY_SIZE)
            /\ code.len <= MEMORY_SIZE =>
                  \A i \in DOMAIN code.cells : MemGet(memory, i) = code.cells[i]

\* C11 as the code has it: images of MEMORY_SIZE words and more are rejected.
C11_LoadRejectsFull ==
    JustLoaded => ret.result = Some(LoadedProgram.mima_code.len < MEMORY_SIZE)

\* C12: after a successful load the machine is a function of the image alone:
\* accumulator 0, halt false, instruction address = start address, memory = the
\* image's words followed by zeros, whatever the machine held before.
C12_LoadDependsOnImageOnly ==
    (JustLoaded /\ ret.result = Some(TRUE)) =>
        LET code == LoadedProgram.mima_code
        IN  /\ akku = U(0) /\ ~halt /\ ~running /\ ~panicked
            /\ iar = LoadedProgram.start_adress
            /\ \A i \in DOMAIN code.cells \cup DOMAIN memory :
                  MemGet(memory, i) = IF i < code.len THEN VecGet(code, i) ELSE U(0)

\* the add program was loaded successfully
C12_Witness ==
    /\ JustLoaded /\ ret.result = Some(TRUE)
    /\ LoadedProgram = AddProgram
    /\ iar = U(3) /\ MemGet(memory, 0) = U(22) /\ MemGet(memory, 6) = Enc("HALT", 0)

\* ------------------------------------------------------------------ claims on halt
\* C13: once halt is set, step and run leave accumulator, instruction address, halt
\* and memory as they are and run returns at once; only reset and load clear halt.
C13_HaltAbsorbing ==
    [][halt =>
        /\ ret'.op \in {"step", "run"} =>
              MachineUnchanged /\ ~running' /\ ~panicked'
        /\ ~halt' => ret'.op \in {"reset", "load"}]_vars

\* run was called on a halted machine: the word at the instruction address is an
\* executable LDV 0, which only the host can have written, after the machine halted
C13_Witness ==
    /\ halt /\ ~running /\ ~panicked
    /\ ret.op = "run"
    /\ iar = U(0)
    /\ Fetched = Some(Command("LDV", U(0)))

\* ------------------------------------------------------------------ the counting loop
\* max: DS 100 of tests::mima_loop_program
LoopMax == 100

\* the bounds m the loop is compiled for: the ends of 2..100 and their neighbours
LoopBounds == {2, 3, LoopMax - 1, LoopMax}

\* the source text of tests::mima_loop_program, counting to m
LoopSource(m) ==
    <<Line("var", None, "one", NumArg(1)),                    \* one: DS 1
      Line("var", None, "max", NumArg(m)),                    \* max: DS m
      Line("var", None, "counter", None),                     \* counter: DS
      Line("instr", Some("START"), "LDV", SymArg("one")),     \* START: LDV one
      Line("instr", None, "STV", SymArg("counter")),          \* STV counter
      Line("instr", Some("LOOP"), "LDV", SymArg("counter")),  \* LOOP: LDV counter
      Line("instr", None, "ADD", SymArg("one")),              \* ADD one
      Line("instr", None, "STV", SymArg("counter")),          \* STV counter
      Line("instr", None, "LDV", SymArg("max")),              \* LDV max
      Line("instr", None, "EQL", SymArg("counter")),          \* EQL counter
      Line("instr", None, "JMN", SymArg("FINISH")),           \* JMN FINISH
      Line("instr", None, "JMP", SymArg("LOOP")),             \* JMP LOOP
      Line("instr", Some("FINISH"), "HALT", None),            \* FINISH: HALT
      Line("blank", None, "", None)>>                         \* (text ends with a newline)

InitLoop ==
    /\ MachineIdle /\ overflow_checks \in BOOLEAN
    /\ CodecIdle
    /\ source \in {LoopSource(m) : m \in LoopBounds}
    /\ parsed_program = None /\ output = None /\ compPc = "source"

\* mima.run() on the loaded program
RunLoaded ==
    /\ compPc = "loaded"
    /\ ret.op = "load"
    /\ RunCall

\* one iteration of the loop of Mima::run, however many there are
RunLoop ==
    /\ running /\ ~panicked /\ ~halt
    /\ ExecStep
    /\ running' = ~halt'
    /\ UNCHANGED <<ret, steps, writes, overflow_checks, kvars, cvars>>

NextLoop == Compile \/ LoadCompiled \/ RunLoaded \/ RunLoop

\* the step that leaves the source text behind (a Compile step, and no other)
Compiling == compPc = "source" /\ compPc' = "compiled"

\* the host makes its calls one after the other, and the loop of run keeps iterating
SpecLoop ==
    /\ InitLoop /\ [][NextLoop]_vars
    /\ WF_compPc(Compiling)
    /\ WF_vars(LoadCompiled \/ RunLoaded \/ RunLoop)

\* the bound m the source text counts to
BoundOf(text) == Unwrap(text[2].arg).value

\* C14: compiling the counting loop for a bound m (100, 99, 3, 2), loading it and calling
\* run terminates: halt is eventually set, and whenever halt is set the counter at
\* memory address 2 equals m.
C14_LoopTerminates ==
    /\ <>(halt /\ ~running /\ ~panicked)
    /\ [](halt => MemGet(memory, 2) = BoundOf(source))

\* run has returned from the loop that counts to 100
C14_Witness ==
    /\ halt /\ ~running /\ ~panicked /\ ret.op = "run"
    /\ source = LoopSource(LoopMax)
    /\ MemGet(memory, 2) = U(LoopMax) /\ MemGet(memory, 1) = U(LoopMax)
    /\ iar = U(12)

\* ------------------------------------------------------------------ unresolved references
\* the symbol of an instruction line names no variable and, for a jump, no label either
Unresolvable(line) ==
    /\ IsSymbolic(line)
    /\ DeclaredAt(SymbolOf(line)) = {}
    /\ IsJump(line.name) => LabelledAt(SymbolOf(line)) = {}

UnresolvableAt == {j \in 1..Len(InstrLines) : Unresolvable(InstrLines[j])}

\* the text was parsed, and the first instruction line that cannot be resolved
\* is a jump / is not a jump
Parsed == compPc # "source" /\ parsed_program.ok
JumpFails ==
    Parsed /\ UnresolvableAt # {} /\ IsJump(InstrLines[Least(UnresolvableAt)].name)
LoadFails ==
    Parsed /\ UnresolvableAt # {} /\ ~IsJump(InstrLines[Least(UnresolvableAt)].name)

\* C15: when the symbol of a jump (JMP, JMN) names neither a declared variable nor
\* a label, compile fails with InvalidReference.
C15_JumpInvalidReference ==
    JumpFails => (~output.ok /\ Unwrap(output.err).kind = "InvalidReference")

\* C15 on the code's side: the error of such a jump is UnknownLabel, with the symbol.
C15_JumpUnknownLabel ==
    JumpFails => output = Err(UnknownLabel(SymbolOf(InstrLines[Least(UnresolvableAt)])))

\* C16: when the symbol of an instruction that is not a jump names no declared
\* variable (a label of that name or not), compile fails with InvalidReference,
\* gives no image, and reports the index of that command in the command sequence,
\* other commands equal to it or not.
C16_InvalidReferenceIndex ==
    LoadFails => /\ output = Err(InvalidReference(Least(UnresolvableAt) - 1))
                 /\ output.value = None

\* LDV a fails at index 1, behind a jump labelled a and before a second LDV a
C16_Witness ==
    /\ compPc = "compiled"
    /\ source = <<Line("instr", Some("a"), "JMP", SymArg("a")),
                  Line("instr", None, "LDV", SymArg("a")),
                  Line("instr", None, "LDV", SymArg("a"))>>
    /\ output = Err(InvalidReference(1))

\* ------------------------------------------------------------------ the instructions
\* this transition executes the fetched command, and the step returns
Executes ==
    /\ StepExecuted /\ InBounds(iar)
    /\ Fetched # None /\ InBounds(Unwrap(Fetched).value)
    /\ ~panicked'

Executing(instruction) == Executes /\ Unwrap(Fetched).instruction = instruction

\* the fetched command is a jump that transfers control
Transfers ==
    \/ Unwrap(Fetched).instruction = "JMP"
    \/ Unwrap(Fetched).instruction = "JMN" /\ UGe(akku, U(MINUS_ONE))

\* the add program, loaded and not written to by the host since, has halted
AddProgramHalted ==
    /\ halt /\ writes = 0
    /\ \A a \in {0, 1, 3, 4, 5, 6} : MemGet(memory, a) = VecGet(AddProgram.mima_code, a)

\* C17: an executed HALT sets halt and leaves the instruction address (at the HALT
\* word), the accumulator and the memory; every other executed instruction that is
\* not a taken jump sets the instruction address to its previous value + 1; so the
\* add program ends with accumulator 42, memory[2] = 42, halt and instruction address 6.
C17_Advance ==
    /\ [](AddProgramHalted => (akku = U(42) /\ MemGet(memory, 2) = U(42) /\ iar = U(6)))
    /\ [][/\ Executing("HALT") => (halt' /\ iar' = iar /\ akku' = akku /\ memory' = memory)
          /\ (Executes /\ ~Executing("HALT") /\ ~Transfers) =>
                (iar' = UAddWide(iar, U(1)).sum /\ ~halt')]_vars

\* four steps of the add program, the last of them its HALT
C17_Witness ==
    /\ AddProgramHalted /\ ret.op = "step" /\ steps = 4
    /\ akku = U(42) /\ MemGet(memory, 2) = U(42) /\ iar = U(6)
    /\ Fetched = Some(Command("HALT", U(0)))

\* memory[operand] of the fetched command
Operand == Unwrap(Fetched).value
OperandCell == MemGet(memory, Operand.lo)

\* C18: an executed EQL sets the accumulator to the all-ones pattern of the 24-bit
\* word, VALUE_SIZE - 1, when accumulator = memory[operand] beforehand, and to 0
\* otherwise; the memory is unchanged.
C18_EqualAllOnes ==
    [][Executing("EQL") =>
        /\ akku' = IF akku = OperandCell THEN U(VALUE_SIZE - 1) ELSE U(0)
        /\ memory' = memory]_vars

\* C18 on the code's side: the pattern of a true test is MINUS_ONE, bit 23 alone.
C18_EqualMinusOne ==
    [][Executing("EQL") =>
        /\ akku' = IF akku = OperandCell THEN U(MINUS_ONE) ELSE U(0)
        /\ memory' = memory]_vars

C20_RotateWithinWord ==
    [][(Executing("RAR") /\ ULt(akku, U(VALUE_SIZE))) =>
        /\ akku' = U((akku.lo \div 2) + (akku.lo % 2) * 2^23)
        /\ ULt(akku', U(VALUE_SIZE))]_vars

\* C20 on the code's side: bit 0 moves to the top bit of the usize, bit 31.
C20_RotateWithinUsize ==
    [][(Executing("RAR") /\ ULt(akku, U(VALUE_SIZE))) =>
        akku' = [hi |-> (akku.lo % 2) * 2^(USIZE_BITS - 25), lo |-> akku.lo \div 2]]_vars

\* C21: an executed NOT replaces an accumulator a < 2^24 by its complement over the
\* 24-bit machine word, (2^24 - 1) - a, again a value below VALUE_SIZE.
C21_NotWithinWord ==
    [][(Executing("NOT") /\ ULt(akku, U(VALUE_SIZE))) =>
        /\ akku' = U((VALUE_SIZE - 1) - akku.lo)
        /\ ULt(akku', U(VALUE_SIZE))]_vars

\* C21 on the code's side: the complement is taken over the usize, so the bits above
\* the machine word are set.
C21_NotWithinUsize ==
    [][(Executing("NOT") /\ ULt(akku, U(VALUE_SIZE))) =>
        akku' = [hi |-> 2^(USIZE_BITS - 24) - 1, lo |-> (VALUE_SIZE - 1) - akku.lo]]_vars

\* ------------------------------------------------------------------ invalid lines
\* the lines of the source text that neither regular expression matches, and the
\* instruction lines whose mnemonic is unknown
OtherAt == {k \in 1..Len(source) : source[k].kind = "other"}
UnknownInstructionAt ==
    {k \in 1..Len(source) : source[k].kind = "instr" /\ from_string(source[k].name) = None}

\* compile has run on a text whose first line in error is a line of neither shape
InvalidLineFirst ==
    /\ compPc # "source"
    /\ OtherAt # {}
    /\ \A k \in UnknownInstructionAt : k > Least(OtherAt)

\* C22: when the source has a line that is neither comment, blank, declaration nor
\* instruction, compile fails with InvalidLine, and the reported line is the position
\* (from 0) of the first such line in the source text, comment lines and blank lines
\* before it counted, and the same text on several lines or not.
C22_InvalidLinePosition ==
    InvalidLineFirst => output = Err(InvalidLine(Least(OtherAt) - 1))

\* C22 on the code's side: the position counts the lines left after the comment
\* lines and the blank lines were dropped.
C22_InvalidLineFiltered ==
    InvalidLineFirst =>
        output = Err(InvalidLine(Cardinality({k \in 1..(Least(OtherAt) - 1) :
                                                 source[k].kind \notin {"comment", "blank"}})))

====
